---------------------------- MODULE Spec2Model ----------------------------
(***************************************************************************)
(* A model of canvas-png-compression: the PNG encoder PngWriter            *)
(* (src/src/PngWriter.ts), the scanline filter (Filter.ts, kept as         *)
(* src/unnamed/part_000) and the toDataURL shim (src/src/main.ts).         *)
(*                                                                         *)
(* Conventions.                                                            *)
(*  - A Uint8Array is a sequence of integers in 0..255.  The code indexes  *)
(*    from 0, sequences from 1: element i of the code is element i+1 here. *)
(*  - A JavaScript number that may be NaN (the result of reading a typed   *)
(*    array out of range, undefined, and using it in arithmetic) is a      *)
(*    sequence: <<v>> is the number v and <<>> is NaN.                     *)
(*  - A nullable value is a sequence too: <<>> is null or undefined and    *)
(*    <<x>> is the value x.                                                *)
(*  - A 32-bit value the code handles with bitwise operators is the signed *)
(*    integer JavaScript's int32 conversion gives, in -2^31 .. 2^31-1.     *)
(*  - A JavaScript number that need not be an integer (the quality given   *)
(*    to toDataURL) is a fraction <<n, d>> with d > 0, and the arithmetic  *)
(*    on it is exact: the rounding of doubles is not modelled.             *)
(***************************************************************************)
EXTENDS Integers, Sequences, FiniteSets, TLC

VARIABLES
    pc,              \* position of the call in progress
    imageData,       \* write: the ImageData argument [width, height, data]
    options,         \* write: the options argument (nullable)
    deflated,        \* write: what pako.deflate answers when it succeeds
    filtered,        \* write: the buffer filter() returned
    deflateOptions,  \* write: the options of each call of pako.deflate, in order
    compressed,      \* write: the buffer pako.deflate returned
    result,          \* write: the returned buffer
    error,           \* write: the exception thrown, "" when none
    type,            \* _writeChunk: the type argument
    data,            \* _writeChunk: the data argument (nullable)
    buf,             \* _writeChunk: the returned buffer
    width,           \* writeIHDRChunk: the width argument
    height,          \* writeIHDRChunk: the height argument
    ihdr,            \* writeIHDRChunk: the returned chunk
    prototypeToDataURL, \* shim: what HTMLCanvasElement.prototype.toDataURL is
    shimOptions,     \* shim: the options object the installed closure holds
    passedOptions,   \* shim: the argument of the last replaceToDataURL (nullable)
    lastCall,        \* shim: the last two calls of replaceToDataURL / revertToDataURL
    replaces,        \* shim: the number of replaceToDataURL calls so far
    call,            \* shim: the toDataURL call made since then and what it did
    qualityArg,      \* level: the quality argument of toDataURL (nullable)
    level,           \* level: the compression level computed from it (nullable)
    heap,            \* calls: the Uint8Array objects, by address
    filterTypes,     \* calls: the module's FILTER_TYPES table
    calls,           \* calls: the calls of filter and write made so far
    paethArgs,       \* paethPredictor: left, above, upper left (nullable)
    predicted        \* paethPredictor: the returned value (nullable)

vars == <<pc, imageData, options, deflated, filtered, deflateOptions,
          compressed, result, error, type, data, buf, width, height, ihdr,
          prototypeToDataURL, shimOptions, passedOptions, lastCall, replaces,
          call, qualityArg, level, heap, filterTypes, calls, paethArgs,
          predicted>>

levelVars == <<qualityArg, level>>

callsVars == <<heap, filterTypes, calls>>

paethVars == <<paethArgs, predicted>>

shimVars == <<prototypeToDataURL, shimOptions, passedOptions, lastCall,
              replaces, call>>

writeVars == <<imageData, options, deflated, filtered, deflateOptions,
               compressed, result, error>>

chunkVars == <<type, data, buf>>

ihdrVars == <<width, height, ihdr>>

---------------------------------------------------------------------------
(* Bounds of the model.                                                    *)

\* An image has at most MaxPixels pixels (width * height <= MaxPixels).
MaxPixels == 4

\* The compressor's answer has at most MaxCompressed bytes.
MaxCompressed == 3

\* A payload handed to _writeChunk has at most MaxPayload bytes.
MaxPayload == 2

\* A quality handed to toDataURL lies in -MaxQuality .. MaxQuality.
MaxQuality == 2

\* replaceToDataURL is called at most MaxReplaces times.
MaxReplaces == 3

\* filter and write are called at most MaxCalls times in a row.
MaxCalls == 3

---------------------------------------------------------------------------
(* JavaScript values.                                                      *)

NaN == <<>>

Num(v) == <<v>>

IsNaN(x) == x = <<>>

\* a + b
JsAdd(a, b) == IF IsNaN(a) \/ IsNaN(b) THEN NaN ELSE Num(a[1] + b[1])

\* a - b
JsSub(a, b) == IF IsNaN(a) \/ IsNaN(b) THEN NaN ELSE Num(a[1] - b[1])

\* Math.abs(a)
JsAbs(a) == IF IsNaN(a) THEN NaN ELSE Num(IF a[1] < 0 THEN 0 - a[1] ELSE a[1])

\* a >> 1: ToInt32(NaN) is 0; the operands here are never negative.
JsShr1(a) == IF IsNaN(a) THEN Num(0) ELSE Num(a[1] \div 2)

\* a <= b: every comparison with NaN is false.
JsLe(a, b) == IF IsNaN(a) \/ IsNaN(b) THEN FALSE ELSE a[1] <= b[1]

\* Reading element i (from 0) of a typed array: undefined when out of range,
\* which arithmetic turns into NaN.
At(arr, i) == IF i >= 0 /\ i < Len(arr) THEN Num(arr[i + 1]) ELSE NaN

\* Storing a number into a Uint8Array element: ToUint8, NaN is stored as 0.
ToUint8(x) == IF IsNaN(x) THEN 0 ELSE x[1] % 256

\* new Uint8Array(n) for n >= 0: n zero bytes.
Zeros(n) == [i \in 1..n |-> 0]

\* typedArray.set(from, offset) for a source that fits.
SetAt(to, from, offset) ==
    [i \in 1..Len(to) |->
        IF i > offset /\ i <= offset + Len(from) THEN from[i - offset] ELSE to[i]]

---------------------------------------------------------------------------
(* pako/lib/zlib/crc32: the table-driven CRC-32 of zlib, on int32 values.  *)

\* Byte k (0 the lowest) of the two's complement form of the int32 v.
ByteOf(v, k) == (v \div (2 ^ (8 * k))) % 256

\* The int32 whose two's complement bytes are b3 b2 b1 b0.
Int32Of(b3, b2, b1, b0) ==
    (IF b3 >= 128 THEN b3 - 256 ELSE b3) * 16777216 + b2 * 65536 + b1 * 256 + b0

\* The bitwise exclusive or of two numbers in 0 .. 2^n - 1.
RECURSIVE XorBits(_, _, _)
XorBits(a, b, n) ==
    IF n = 0 THEN 0
    ELSE (((a % 2) + (b % 2)) % 2) + 2 * XorBits(a \div 2, b \div 2, n - 1)

\* a ^ b on int32 values, byte by byte.
Xor32(a, b) ==
    Int32Of(XorBits(ByteOf(a, 3), ByteOf(b, 3), 8),
            XorBits(ByteOf(a, 2), ByteOf(b, 2), 8),
            XorBits(ByteOf(a, 1), ByteOf(b, 1), 8),
            XorBits(ByteOf(a, 0), ByteOf(b, 0), 8))

\* c >>> n for 1 <= n <= 31, on an int32 c: ToUint32(c) shifted right, which
\* for a negative c is floor(c / 2^n) + 2^(32-n) (added in two halves, each
\* within the integers of the model checker).
Ushr(c, n) ==
    IF c >= 0 THEN c \div (2 ^ n)
    ELSE ((c \div (2 ^ n)) + 2 ^ (31 - n)) + 2 ^ (31 - n)

\* 0xEDB88320 as an int32.
CrcPoly == Int32Of(237, 184, 131, 32)

RECURSIVE MakeTableEntry(_, _)
MakeTableEntry(c, k) ==
    IF k = 0 THEN c
    ELSE MakeTableEntry(IF c % 2 = 1 THEN Xor32(CrcPoly, Ushr(c, 1)) ELSE Ushr(c, 1),
                        k - 1)

crcTable == [n \in 0..255 |-> MakeTableEntry(n, 8)]

\* The body of the loop of crc32 for one byte:
\* crc = (crc >>> 8) ^ crcTable[(crc ^ byte) & 0xFF]
CrcStep(crc, byte) ==
    Xor32(Ushr(crc, 8), crcTable[XorBits(ByteOf(crc, 0), byte, 8)])

\* The loop of crc32 over bytes i .. end-1 (from 0).  The bytes are taken in
\* order, first half then second half, and the value after the first half is
\* computed (it is an integer) before the second half starts, which keeps the
\* evaluation of a long loop shallow.
RECURSIVE CrcLoop(_, _, _, _)
CrcLoop(crc, bytes, i, end) ==
    IF i >= end THEN crc
    ELSE IF end = i + 1 THEN CrcStep(crc, bytes[i + 1])
    ELSE LET mid == (i + end) \div 2
             half == CrcLoop(crc, bytes, i, mid)
         IN  CASE half \in Int -> CrcLoop(half, bytes, mid, end)

\* crc32(crc, buf, len, pos)
crc32(crc, bytes, len, pos) ==
    Xor32(CrcLoop(Xor32(crc, -1), bytes, pos, pos + len), -1)

---------------------------------------------------------------------------
(* PngWriter: the chunk framing.                                           *)

PNG_SIGNATURE == <<137, 80, 78, 71, 13, 10, 26, 10>>

TYPE_IHDR == 1229472850

TYPE_IEND == 1229278788

TYPE_IDAT == 1229209940

\* A slip in _writeAsBigEndian: the shifts in the opposite order, which writes
\* the value little-endian.
WriteAsLittleEndian(arr, value, startIndex) ==
    [i \in 1..Len(arr) |->
        IF i = startIndex + 1 THEN ByteOf(value, 0)
        ELSE IF i = startIndex + 2 THEN ByteOf(value, 1)
        ELSE IF i = startIndex + 3 THEN ByteOf(value, 2)
        ELSE IF i = startIndex + 4 THEN ByteOf(value, 3)
        ELSE arr[i]]

\* arr[startIndex + k] = value >>> (24 - 8k): the store keeps the low 8 bits
\* of the shifted ToUint32(value), which is byte 3 - k of its two's
\* complement form.
_writeAsBigEndian(arr, value, startIndex) ==
    [i \in 1..Len(arr) |->
        IF i = startIndex + 1 THEN ByteOf(value, 3)
        ELSE IF i = startIndex + 2 THEN ByteOf(value, 2)
        ELSE IF i = startIndex + 3 THEN ByteOf(value, 1)
        ELSE IF i = startIndex + 4 THEN ByteOf(value, 0)
        ELSE arr[i]]

\* PngWriter.copy(from, to, toStartIndex, length, fromStartPos); length and
\* fromStartPos are nullable.
copy(from, to, toStartIndex, length, fromStartPos) ==
    LET len == IF length = <<>> THEN Len(from) ELSE length[1]
        pos == IF fromStartPos = <<>> THEN 0 ELSE fromStartPos[1]
        last == IF pos + len > Len(from) THEN Len(from) ELSE pos + len
    IN  SetAt(to, SubSeq(from, pos + 1, last), toStartIndex)

\* A slip in _writeChunk: buf.slice(0, buf.length - 4), which puts the length
\* field under the CRC.
PartWithLen(b) == SubSeq(b, 1, Len(b) - 4)

\* buf.slice(4, buf.length - 4)
PartWithoutLen(b) == SubSeq(b, 5, Len(b) - 4)

_writeChunk(tag, payload) ==
    LET len == IF payload # <<>> THEN Len(payload[1]) ELSE 0
        b0 == Zeros(len + 12)
        b1 == _writeAsBigEndian(b0, len, 0)
        b2 == _writeAsBigEndian(b1, tag, 4)
        b3 == IF payload # <<>> THEN copy(payload[1], b2, 8, <<>>, <<>>) ELSE b2
        partWithoutLen == PartWithoutLen(b3)
    IN  _writeAsBigEndian(b3, crc32(0, partWithoutLen, Len(partWithoutLen), 0),
                          Len(b3) - 4)

writeIHDRChunk(w, h) ==
    LET i0 == Zeros(13)
        i1 == _writeAsBigEndian(i0, w, 0)
        i2 == _writeAsBigEndian(i1, h, 4)
        i3 == [i2 EXCEPT ![9] = 8, ![10] = 6, ![11] = 0, ![12] = 0, ![13] = 0]
    IN  _writeChunk(TYPE_IHDR, <<i3>>)

writeIDATChunk(d) == _writeChunk(TYPE_IDAT, <<d>>)

writeIENDChunk == _writeChunk(TYPE_IEND, <<>>)

---------------------------------------------------------------------------
(* Filter.ts: the scanline filters and their cost sums.                    *)

\* A slip in paethPredictor: < for <=, which sends a tie to the later
\* candidate.
paethPredictorStrict(left, above, uppperLeft) ==
    LET paeth == JsSub(JsAdd(left, above), uppperLeft)
        pLeft == JsAbs(JsSub(paeth, left))
        pAbove == JsAbs(JsSub(paeth, above))
        pUpLeft == JsAbs(JsSub(paeth, uppperLeft))
    IN  IF (JsLe(pLeft, pAbove) /\ pLeft # pAbove)
               /\ (JsLe(pLeft, pUpLeft) /\ pLeft # pUpLeft) THEN left
        ELSE IF JsLe(pAbove, pUpLeft) /\ pAbove # pUpLeft THEN above
        ELSE uppperLeft

paethPredictor(left, above, uppperLeft) ==
    LET paeth == JsSub(JsAdd(left, above), uppperLeft)
        pLeft == JsAbs(JsSub(paeth, left))
        pAbove == JsAbs(JsSub(paeth, above))
        pUpLeft == JsAbs(JsSub(paeth, uppperLeft))
    IN  IF JsLe(pLeft, pAbove) /\ JsLe(pLeft, pUpLeft) THEN left
        ELSE IF JsLe(pAbove, pUpLeft) THEN above
        ELSE uppperLeft

\* The loop "for i in 0 .. byteWidth-1: filteredData[filteredPos + i] = vals[i]".
StoreRow(filteredData, filteredPos, byteWidth, vals) ==
    [k \in 1..Len(filteredData) |->
        IF k - 1 >= filteredPos /\ k - 1 < filteredPos + byteWidth
        THEN ToUint8(vals[k - 1 - filteredPos])
        ELSE filteredData[k]]

\* The loop "sum = 0; for i in 0 .. byteWidth-1: sum += Math.abs(vals[i])".
\* The terms are integers or NaN, so the order of the additions does not
\* change the sum; they are added in halves, which keeps the evaluation of a
\* long row shallow.
SumRow(byteWidth, vals) ==
    LET RECURSIVE Sum(_, _)
        Sum(lo, hi) ==
            IF hi <= lo THEN Num(0)
            ELSE IF hi = lo + 1 THEN JsAbs(vals[lo])
            ELSE JsAdd(Sum(lo, (lo + hi) \div 2), Sum((lo + hi) \div 2, hi))
    IN  Sum(0, byteWidth)

filterNone(fromData, fromPos, byteWidth, filteredData, filteredPos) ==
    copy(fromData, filteredData, filteredPos, <<byteWidth>>, <<fromPos>>)

filterSumNone(fromData, fromPos, byteWidth) ==
    LET val(i) == At(fromData, fromPos + i)
    IN  SumRow(byteWidth, [i \in 0..(byteWidth - 1) |-> val(i)])

\* A slip in filterSub: the test i >= bpp left out, so the first pixel of a
\* row is predicted from the bytes before the row.
filterSubNoGuard(fromData, fromPos, byteWidth, filteredData, filteredPos, bpp) ==
    LET val(i) == JsSub(At(fromData, fromPos + i), At(fromData, fromPos + i - bpp))
    IN  StoreRow(filteredData, filteredPos, byteWidth,
                 [i \in 0..(byteWidth - 1) |-> val(i)])

filterSub(fromData, fromPos, byteWidth, filteredData, filteredPos, bpp) ==
    LET val(i) ==
            LET left == IF i >= bpp THEN At(fromData, fromPos + i - bpp) ELSE Num(0)
            IN  JsSub(At(fromData, fromPos + i), left)
    IN  StoreRow(filteredData, filteredPos, byteWidth,
                 [i \in 0..(byteWidth - 1) |-> val(i)])

filterSumSub(fromData, fromPos, byteWidth, bpp) ==
    LET val(i) ==
            LET left == IF i >= bpp THEN At(fromData, fromPos + i - bpp) ELSE Num(0)
            IN  JsSub(At(fromData, fromPos + i), left)
    IN  SumRow(byteWidth, [i \in 0..(byteWidth - 1) |-> val(i)])

filterUp(fromData, fromPos, byteWidth, filteredData, filteredPos) ==
    LET val(i) ==
            LET up == IF fromPos > 0 THEN At(fromData, fromPos + i - byteWidth)
                      ELSE Num(0)
            IN  JsSub(At(fromData, fromPos + i), up)
    IN  StoreRow(filteredData, filteredPos, byteWidth,
                 [i \in 0..(byteWidth - 1) |-> val(i)])

\* A slip in filterSumUp: fromPos >= 0 for fromPos > 0, so the first row
\* reads above the image.
filterSumUpAnyRow(fromData, fromPos, byteWidth) ==
    LET val(k) ==
            LET i == fromPos + k
                up == IF fromPos >= 0 THEN At(fromData, i - byteWidth) ELSE Num(0)
            IN  JsSub(At(fromData, i), up)
    IN  SumRow(byteWidth, [i \in 0..(byteWidth - 1) |-> val(i)])

\* The code's loop runs i from fromPos to fromPos + byteWidth - 1; val(k) is
\* its body at i = fromPos + k.
filterSumUp(fromData, fromPos, byteWidth) ==
    LET val(k) ==
            LET i == fromPos + k
                up == IF fromPos > 0 THEN At(fromData, i - byteWidth) ELSE Num(0)
            IN  JsSub(At(fromData, i), up)
    IN  SumRow(byteWidth, [i \in 0..(byteWidth - 1) |-> val(i)])

\* A slip in filterAvg: the sum left + up kept in a byte, so it wraps at 256
\* before it is halved.
filterAvgWrapped(fromData, fromPos, byteWidth, filteredData, filteredPos, bpp) ==
    LET val(i) ==
            LET left == IF i >= bpp THEN At(fromData, fromPos + i - bpp) ELSE Num(0)
                up == IF fromPos > 0 THEN At(fromData, fromPos + i - byteWidth)
                      ELSE Num(0)
            IN  JsSub(At(fromData, fromPos + i),
                      JsShr1(Num(ToUint8(JsAdd(left, up)))))
    IN  StoreRow(filteredData, filteredPos, byteWidth,
                 [i \in 0..(byteWidth - 1) |-> val(i)])

filterAvg(fromData, fromPos, byteWidth, filteredData, filteredPos, bpp) ==
    LET val(i) ==
            LET left == IF i >= bpp THEN At(fromData, fromPos + i - bpp) ELSE Num(0)
                up == IF fromPos > 0 THEN At(fromData, fromPos + i - byteWidth)
                      ELSE Num(0)
            IN  JsSub(At(fromData, fromPos + i), JsShr1(JsAdd(left, up)))
    IN  StoreRow(filteredData, filteredPos, byteWidth,
                 [i \in 0..(byteWidth - 1) |-> val(i)])

filterSumAvg(fromData, fromPos, byteWidth, bpp) ==
    LET val(i) ==
            LET left == IF i >= bpp THEN At(fromData, fromPos + i - bpp) ELSE Num(0)
                up == IF fromPos > 0 THEN At(fromData, fromPos + i - byteWidth)
                      ELSE Num(0)
            IN  JsSub(At(fromData, fromPos + i), JsShr1(JsAdd(left, up)))
    IN  SumRow(byteWidth, [i \in 0..(byteWidth - 1) |-> val(i)])

filterPaeth(fromData, fromPos, byteWidth, filteredData, filteredPos, bpp) ==
    LET val(i) ==
            LET left == IF i >= bpp THEN At(fromData, fromPos + i - bpp) ELSE Num(0)
                up == IF fromPos > 0 THEN At(fromData, fromPos + i - byteWidth)
                      ELSE Num(0)
                upleft == IF fromPos > 0 /\ i >= bpp
                          THEN At(fromData, fromPos + i - (byteWidth + bpp))
                          ELSE Num(0)
            IN  JsSub(At(fromData, fromPos + i), paethPredictor(left, up, upleft))
    IN  StoreRow(filteredData, filteredPos, byteWidth,
                 [i \in 0..(byteWidth - 1) |-> val(i)])

filterSumPaeth(fromData, fromPos, byteWidth, bpp) ==
    LET val(i) ==
            LET left == IF i >= bpp THEN At(fromData, fromPos + i - bpp) ELSE Num(0)
                up == IF fromPos > 0 THEN At(fromData, fromPos + i - byteWidth)
                      ELSE Num(0)
                upleft == IF fromPos > 0 /\ i >= bpp
                          THEN At(fromData, fromPos + i - (byteWidth + bpp))
                          ELSE Num(0)
            IN  JsSub(At(fromData, fromPos + i), paethPredictor(left, up, upleft))
    IN  SumRow(byteWidth, [i \in 0..(byteWidth - 1) |-> val(i)])

\* The table FILTER_TYPES, indexed from 0 in the code; its filter and sum
\* members are the two dispatch operators below.
FILTER_TYPES == <<[type |-> 0], [type |-> 1], [type |-> 2], [type |-> 3], [type |-> 4]>>

\* FILTER_TYPES[j].sum(data, fromPos, byteWidth, bpp)
FilterTypeSum(j, fromData, fromPos, byteWidth, bpp) ==
    CASE j = 0 -> filterSumNone(fromData, fromPos, byteWidth)
      [] j = 1 -> filterSumSub(fromData, fromPos, byteWidth, bpp)
      [] j = 2 -> filterSumUp(fromData, fromPos, byteWidth)
      [] j = 3 -> filterSumAvg(fromData, fromPos, byteWidth, bpp)
      [] j = 4 -> filterSumPaeth(fromData, fromPos, byteWidth, bpp)

\* FILTER_TYPES[j].filter(data, fromPos, byteWidth, filtered, filteredPos, bpp)
FilterTypeFilter(j, fromData, fromPos, byteWidth, filteredData, filteredPos, bpp) ==
    CASE j = 0 -> filterNone(fromData, fromPos, byteWidth, filteredData, filteredPos)
      [] j = 1 -> filterSub(fromData, fromPos, byteWidth, filteredData, filteredPos, bpp)
      [] j = 2 -> filterUp(fromData, fromPos, byteWidth, filteredData, filteredPos)
      [] j = 3 -> filterAvg(fromData, fromPos, byteWidth, filteredData, filteredPos, bpp)
      [] j = 4 -> filterPaeth(fromData, fromPos, byteWidth, filteredData, filteredPos, bpp)

\* filterSumMin starts at Infinity: [inf |-> TRUE]; afterwards it is a sum.
Infinity == [inf |-> TRUE, v |-> 0]

\* A slip in filter(): sum <= filterSumMin, which keeps the last of the
\* cheapest filter types.
SumNotAboveMin(sum, filterSumMin) ==
    /\ ~IsNaN(sum)
    /\ (filterSumMin.inf \/ sum[1] <= filterSumMin.v)

\* sum < filterSumMin: false when the sum is NaN.
SumBelowMin(sum, filterSumMin) ==
    /\ ~IsNaN(sum)
    /\ (filterSumMin.inf \/ sum[1] < filterSumMin.v)

\* The inner loop of filter(), from j on: the filter type left in filterType.
RECURSIVE SelectLoop(_, _, _, _, _, _, _)
SelectLoop(j, filterSumMin, filterType, fromData, fromPos, byteWidth, bpp) ==
    IF j >= Len(FILTER_TYPES) THEN filterType
    ELSE LET sum == FilterTypeSum(j, fromData, fromPos, byteWidth, bpp)
         IN  IF SumBelowMin(sum, filterSumMin)
             THEN SelectLoop(j + 1, [inf |-> FALSE, v |-> sum[1]], j,
                             fromData, fromPos, byteWidth, bpp)
             ELSE SelectLoop(j + 1, filterSumMin, filterType,
                             fromData, fromPos, byteWidth, bpp)

\* The outer loop of filter(), from row i on.
RECURSIVE FilterLoop(_, _, _, _, _, _, _, _, _)
FilterLoop(i, h, fromData, byteWidth, bpp, filteredData, filterTypePos, fromPos, filterType) ==
    IF i >= h THEN filteredData
    ELSE LET chosen == SelectLoop(1, Infinity, filterType, fromData, fromPos,
                                  byteWidth, bpp)
             typed == [filteredData EXCEPT ![filterTypePos + 1] = FILTER_TYPES[chosen + 1].type]
             row == FilterTypeFilter(chosen, fromData, fromPos, byteWidth, typed,
                                     filterTypePos + 1, bpp)
         IN  FilterLoop(i + 1, h, fromData, byteWidth, bpp, row,
                        filterTypePos + (byteWidth + 1), fromPos + byteWidth, chosen)

\* new Uint8Array((byteWidth + 1) * height) throws a RangeError for a negative
\* length.
filterThrows(image) == (image.width * 4 + 1) * image.height < 0

\* A slip in filter(): var filterType kept at module level, so a call starts
\* from the type the call before it ended with.
filterCarryingType(image) ==
    LET bpp == 4
        byteWidth == image.width * bpp
        carried == IF calls = <<>> THEN 1
                   ELSE IF calls[Len(calls)].types = <<>> THEN 1
                   ELSE calls[Len(calls)].types[Len(calls[Len(calls)].types)]
    IN  FilterLoop(0, image.height, image.data, byteWidth, bpp,
                   Zeros((byteWidth + 1) * image.height), 0, 0, carried)

\* filter(imageData), when the allocation succeeds.
filter(image) ==
    LET bpp == 4
        byteWidth == image.width * bpp
    IN  FilterLoop(0, image.height, image.data, byteWidth, bpp,
                   Zeros((byteWidth + 1) * image.height), 0, 0, 1)

---------------------------------------------------------------------------
(* PngWriter.write and the compressor it calls.                            *)

\* Object.assign(target, source): the source's own fields overwrite or extend
\* the target's.
ObjectAssign(target, source) ==
    [k \in (DOMAIN target) \cup (DOMAIN source) |->
        IF k \in DOMAIN source THEN source[k] ELSE target[k]]

\* The object literal of defaults in write().
DefaultOptions == [level |-> 0, windowBits |-> 15, chunkSize |-> 32 * 1024, strategy |-> 3]

\* A slip in write(): Object.assign(options, {defaults}), which lets the
\* defaults overwrite what the caller gave.
DefaultsOverOptions(opts) == ObjectAssign(opts, DefaultOptions)

\* The options write() forwards to pako.deflate.
ForwardedOptions(opts) == ObjectAssign(DefaultOptions, opts)

\* Whether pako.deflate takes the options: zlib's deflateInit2 refuses a level
\* outside 0..9, a strategy outside 0..4 and a window outside 8..15 (negated
\* for raw deflate), and pako throws on the refusal.
DeflateAccepts(o) ==
    /\ o.level \in 0..9
    /\ o.strategy \in 0..4
    /\ (o.windowBits \in 8..15 \/ (0 - o.windowBits) \in 8..15)

\* The two reduce() calls of write(): a buffer of the parts' total length,
\* each part set at the offset where the one before it ends.
RECURSIVE BufferSize(_)
BufferSize(parts) ==
    IF parts = <<>> THEN 0 ELSE Len(Head(parts)) + BufferSize(Tail(parts))

\* A slip in the second reduce(): offset += cu.length left out, so every part
\* is set at offset 0.
RECURSIVE SetPartsAtZero(_, _, _)
SetPartsAtZero(pr, parts, offset) ==
    IF parts = <<>> THEN pr
    ELSE SetPartsAtZero(SetAt(pr, Head(parts), offset), Tail(parts), offset)

RECURSIVE SetParts(_, _, _)
SetParts(pr, parts, offset) ==
    IF parts = <<>> THEN pr
    ELSE SetParts(SetAt(pr, Head(parts), offset), Tail(parts),
                  offset + Len(Head(parts)))

JoinParts(parts) == SetParts(Zeros(BufferSize(parts)), parts, 0)

\* options = options || {}
OptionsOrEmpty(o) == IF o = <<>> THEN <<>> ELSE o[1]

---------------------------------------------------------------------------
(* The inputs of the model.                                                *)

Red == <<255, 0, 0, 255>>

Green == <<0, 255, 0, 255>>

Mixed == <<10, 200, 30, 128>>

Palette == {Red, Green, Mixed}

\* The bytes of a sequence of pixels, 4 per pixel.
Flatten(pixels) ==
    [i \in 1..(4 * Len(pixels)) |-> pixels[((i - 1) \div 4) + 1][((i - 1) % 4) + 1]]

Image(w, h, pixels) == [width |-> w, height |-> h, data |-> Flatten(pixels)]

\* Every image of at most MaxPixels pixels over the palette whose buffer has
\* width * height * 4 bytes.
WellFormedImages ==
    UNION {UNION {{Image(w, h, p) : p \in [1..(w * h) -> Palette]} :
                  h \in {k \in 1..MaxPixels : w * k <= MaxPixels}} :
           w \in 1..MaxPixels}

\* n pixels going round the palette.
Cycle(n) == [k \in 1..n |-> <<Red, Green, Mixed>>[((k - 1) % 3) + 1]]

\* Images write() is not meant for: a dimension that is zero or negative, or
\* a buffer that is not width * height pixels long.
MalformedImages ==
    {Image(w, h, Cycle(n)) : <<w, h, n>> \in
        {t \in (-1..MaxPixels) \X (-1..MaxPixels) \X (0..(MaxPixels + 1)) :
            t[1] <= 0 \/ t[2] <= 0 \/ t[3] # t[1] * t[2]}}

Red2x1 == Image(2, 1, <<Red, Red>>)

Red1x1 == Image(1, 1, <<Red>>)

\* The options a caller gives: any of the four fields, each with a value
\* pako takes or one it refuses (level 10, strategy 7).
OptionValues ==
    [level |-> {5, 10}, windowBits |-> {9}, chunkSize |-> {1024}, strategy |-> {0, 7}]

OptionObjects ==
    UNION {{o \in [K -> {5, 10, 9, 1024, 0, 7}] : \A k \in K : o[k] \in OptionValues[k]} :
           K \in SUBSET {"level", "windowBits", "chunkSize", "strategy"}}

\* What the compressor may answer: its output is opaque to write(), so any
\* short byte sequence stands for it.
DeflateOutputs == UNION {[1..n -> {0, 120, 255}] : n \in 1..MaxCompressed}

SomeDeflateOutput == <<120, 1>>

\* The calls of write() the model makes: every image with no options, and
\* two images with every options object and with every compressor answer.
WriteInputs ==
    {<<i, <<>>, SomeDeflateOutput>> : i \in WellFormedImages \cup MalformedImages}
    \cup {<<i, <<o>>, SomeDeflateOutput>> : i \in {Red1x1, Red2x1}, o \in OptionObjects}
    \cup {<<i, <<>>, d>> : i \in {Red1x1, Red2x1}, d \in DeflateOutputs}

\* The type tags and payloads handed to _writeChunk.
TypeTags == {TYPE_IHDR, TYPE_IDAT, TYPE_IEND, 0, 1, 255, 256, 2147483647}

Payloads ==
    {<<>>} \cup {<<p>> : p \in UNION {[1..n -> {0, 1, 137, 255}] : n \in 0..MaxPayload}}

\* The dimensions handed to writeIHDRChunk.
Dimensions ==
    {1, 2, 255, 256, 257, 65535, 65536, 16777215, 16777216, 305419896, 2147483647}

---------------------------------------------------------------------------
(* The state machines.                                                     *)

NoWrite ==
    /\ imageData = Image(0, 0, <<>>)
    /\ options = <<>>
    /\ deflated = <<>>
    /\ filtered = <<>>
    /\ deflateOptions = <<>>
    /\ compressed = <<>>
    /\ result = <<>>
    /\ error = ""

NoChunk == type = 0 /\ data = <<>> /\ buf = <<>>

NoIHDR == width = 0 /\ height = 0 /\ ihdr = <<>>

\* The library is loaded and nothing of the shim has been called.
NoShim ==
    /\ prototypeToDataURL = "native"
    /\ shimOptions = <<>>
    /\ passedOptions = <<>>
    /\ lastCall = <<>>
    /\ replaces = 0
    /\ call = <<>>

NoLevel == qualityArg = <<>> /\ level = <<>>

NoPaeth == paethArgs = <<>> /\ predicted = <<>>

\* The module is loaded and neither filter nor write has been called.
NoCalls == heap = <<>> /\ filterTypes = FILTER_TYPES /\ calls = <<>>

\* A call of new PngWriter().write(imageData, options) is about to run.
Init ==
    /\ pc = "ready"
    /\ \E in \in WriteInputs :
           /\ imageData = in[1]
           /\ options = in[2]
           /\ deflated = in[3]
    /\ filtered = <<>>
    /\ deflateOptions = <<>>
    /\ compressed = <<>>
    /\ result = <<>>
    /\ error = ""
    /\ NoChunk
    /\ NoIHDR
    /\ NoShim
    /\ NoLevel
    /\ NoCalls
    /\ NoPaeth

\* A slip in write(): the call of pako.deflate wrapped in try/catch, the catch
\* calling it again with the defaults alone and going on to build the buffer.
WriteRetrying ==
    /\ pc = "ready"
    /\ LET opts == OptionsOrEmpty(options)
           signature == PNG_SIGNATURE
           ihdrChunk == writeIHDRChunk(imageData.width, imageData.height)
       IN  IF filterThrows(imageData)
           THEN /\ pc' = "threw"
                /\ error' = "RangeError"
                /\ UNCHANGED <<filtered, deflateOptions, compressed, result>>
           ELSE LET f == filter(imageData)
                    forwarded == ForwardedOptions(opts)
                IN  /\ filtered' = f
                    /\ deflateOptions' = IF DeflateAccepts(forwarded) THEN <<forwarded>>
                                         ELSE <<forwarded, DefaultOptions>>
                    /\ pc' = "returned"
                    /\ compressed' = deflated
                    /\ result' = <<JoinParts(<<signature, ihdrChunk,
                                               writeIDATChunk(deflated),
                                               writeIENDChunk>>)>>
                    /\ UNCHANGED error
    /\ UNCHANGED <<imageData, options, deflated>>
    /\ UNCHANGED chunkVars
    /\ UNCHANGED ihdrVars
    /\ UNCHANGED shimVars
    /\ UNCHANGED levelVars
    /\ UNCHANGED callsVars
    /\ UNCHANGED paethVars

\* PngWriter.write(imageData, options), from its first statement to its return
\* or to the exception that ends it.
Write ==
    /\ pc = "ready"
    /\ LET opts == OptionsOrEmpty(options)
           signature == PNG_SIGNATURE
           ihdrChunk == writeIHDRChunk(imageData.width, imageData.height)
       IN  IF filterThrows(imageData)
           THEN /\ pc' = "threw"
                /\ error' = "RangeError"
                /\ UNCHANGED <<filtered, deflateOptions, compressed, result>>
           ELSE LET f == filter(imageData)
                    forwarded == ForwardedOptions(opts)
                IN  /\ filtered' = f
                    /\ deflateOptions' = <<forwarded>>
                    /\ IF ~DeflateAccepts(forwarded)
                       THEN /\ pc' = "threw"
                            /\ error' = "deflate"
                            /\ UNCHANGED <<compressed, result>>
                       ELSE /\ pc' = "returned"
                            /\ compressed' = deflated
                            /\ result' = <<JoinParts(<<signature, ihdrChunk,
                                                       writeIDATChunk(deflated),
                                                       writeIENDChunk>>)>>
                            /\ UNCHANGED error
    /\ UNCHANGED <<imageData, options, deflated>>
    /\ UNCHANGED chunkVars
    /\ UNCHANGED ihdrVars
    /\ UNCHANGED shimVars
    /\ UNCHANGED levelVars
    /\ UNCHANGED callsVars
    /\ UNCHANGED paethVars

Next == Write

Spec == Init /\ [][Next]_vars

\* A call of _writeChunk(type, data) is about to run.
InitChunk ==
    /\ pc = "ready"
    /\ type \in TypeTags
    /\ data \in Payloads
    /\ buf = <<>>
    /\ NoWrite
    /\ NoIHDR
    /\ NoShim
    /\ NoLevel
    /\ NoCalls
    /\ NoPaeth

WriteChunk ==
    /\ pc = "ready"
    /\ buf' = _writeChunk(type, data)
    /\ pc' = "returned"
    /\ UNCHANGED <<type, data>>
    /\ UNCHANGED writeVars
    /\ UNCHANGED ihdrVars
    /\ UNCHANGED shimVars
    /\ UNCHANGED levelVars
    /\ UNCHANGED callsVars
    /\ UNCHANGED paethVars

NextChunk == WriteChunk

SpecChunk == InitChunk /\ [][NextChunk]_vars

\* A call of writeIHDRChunk(width, height) is about to run.
InitIHDR ==
    /\ pc = "ready"
    /\ width \in Dimensions
    /\ height \in Dimensions
    /\ ihdr = <<>>
    /\ NoWrite
    /\ NoChunk
    /\ NoShim
    /\ NoLevel
    /\ NoCalls
    /\ NoPaeth

WriteIHDRChunk ==
    /\ pc = "ready"
    /\ ihdr' = writeIHDRChunk(width, height)
    /\ pc' = "returned"
    /\ UNCHANGED <<width, height>>
    /\ UNCHANGED writeVars
    /\ UNCHANGED chunkVars
    /\ UNCHANGED shimVars
    /\ UNCHANGED levelVars
    /\ UNCHANGED callsVars
    /\ UNCHANGED paethVars

NextIHDR == WriteIHDRChunk

SpecIHDR == InitIHDR /\ [][NextIHDR]_vars

---------------------------------------------------------------------------
(* Base64Writer and the shim of main.ts.                                   *)

Base64Alphabet ==
    <<"A", "B", "C", "D", "E", "F", "G", "H", "I", "J", "K", "L", "M",
     "N", "O", "P", "Q", "R", "S", "T", "U", "V", "W", "X", "Y", "Z",
     "a", "b", "c", "d", "e", "f", "g", "h", "i", "j", "k", "l", "m",
     "n", "o", "p", "q", "r", "s", "t", "u", "v", "w", "x", "y", "z",
     "0", "1", "2", "3", "4", "5", "6", "7", "8", "9", "+", "/">>

\* window.btoa on the binary string of the bytes: 3 bytes give 4 characters,
\* a last group of 1 or 2 bytes is padded with "=".
Base64Char(bytes, k) ==
    LET g == (k - 1) \div 4
        j == (k - 1) % 4
        B(i) == IF i <= Len(bytes) THEN bytes[i] ELSE 0
        v == B(3 * g + 1) * 65536 + B(3 * g + 2) * 256 + B(3 * g + 3)
    IN  IF j >= 2 /\ 3 * g + j > Len(bytes) THEN "="
        ELSE Base64Alphabet[((v \div (64 ^ (3 - j))) % 64) + 1]

RECURSIVE BtoaRange(_, _, _)
BtoaRange(bytes, lo, hi) ==
    IF hi < lo THEN ""
    ELSE IF hi = lo THEN Base64Char(bytes, lo)
    ELSE BtoaRange(bytes, lo, (lo + hi) \div 2)
             \o BtoaRange(bytes, ((lo + hi) \div 2) + 1, hi)

btoa(bytes) == BtoaRange(bytes, 1, 4 * ((Len(bytes) + 2) \div 3))

\* Base64Writer.bytesToBase64(type, buffer)
bytesToBase64(prefix, buffer) == prefix \o btoa(buffer)

\* Fractions <<n, d>>, d > 0, for the numbers that need not be integers.
Frac(n, d) == <<n, d>>

FracSub(a, b) == <<a[1] * b[2] - b[1] * a[2], a[2] * b[2]>>

\* a / b for b # 0.
FracDiv(a, b) ==
    IF b[1] > 0 THEN <<a[1] * b[2], a[2] * b[1]>>
    ELSE <<0 - a[1] * b[2], 0 - a[2] * b[1]>>

\* Math.round: the nearest integer, a tie going up.
MathRound(x) == (2 * x[1] + x[2]) \div (2 * x[2])

MathMin(a, b) == IF a < b THEN a ELSE b

MathMax(a, b) == IF a > b THEN a ELSE b

\* A slip in the level: the quality scaled to 0..9 without being inverted.
LevelNotInverted(encoderOptions) ==
    MathMax(MathMin(MathRound(FracDiv(encoderOptions, FracDiv(Frac(1, 1), Frac(9, 1)))),
                    9), 0)

\* Math.max(Math.min(Math.round(9 - (encoderOptions / (1 / 9))), 9), 0)
LevelOf(encoderOptions) ==
    MathMax(MathMin(MathRound(FracSub(Frac(9, 1),
                                      FracDiv(encoderOptions,
                                              FracDiv(Frac(1, 1), Frac(9, 1))))),
                    9), 0)

\* if (typeof encoderOptions === 'undefined') encoderOptions = 1
QualityOrOne(encoderOptions) ==
    IF encoderOptions = <<>> THEN Frac(1, 1) ELSE encoderOptions[1]

\* new PngWriter().write(image, o) as a value: whether it threw, the options
\* of each pako.deflate call, the filtered buffer and the returned buffer;
\* answer is what pako.deflate returns when it takes the options.
write(image, o, answer) ==
    IF filterThrows(image)
    THEN [threw |-> TRUE, error |-> "RangeError", deflateCalls |-> <<>>,
          filtered |-> <<>>, buffer |-> <<>>]
    ELSE LET forwarded == ForwardedOptions(OptionsOrEmpty(o))
         IN  IF ~DeflateAccepts(forwarded)
             THEN [threw |-> TRUE, error |-> "deflate",
                   deflateCalls |-> <<forwarded>>,
                   filtered |-> filter(image), buffer |-> <<>>]
             ELSE [threw |-> FALSE, error |-> "",
                   deflateCalls |-> <<forwarded>>,
                   filtered |-> filter(image),
                   buffer |-> JoinParts(<<PNG_SIGNATURE,
                                          writeIHDRChunk(image.width, image.height),
                                          writeIDATChunk(answer),
                                          writeIENDChunk>>)]

\* The qualities handed to toDataURL: eighteenths, which hold every quality
\* where 9 - 9q lies halfway between two integers, and hundredths.
QualityDenominators == {18, 100}

Qualities ==
    UNION {{Frac(n, d) : n \in (0 - MaxQuality * d)..(MaxQuality * d)} :
           d \in QualityDenominators}

\* The shim is about to compute the level of a toDataURL call, lines 20-23 of
\* main.ts, with the quality given or left out.
InitLevel ==
    /\ pc = "ready"
    /\ qualityArg \in {<<>>} \cup {<<q>> : q \in Qualities}
    /\ level = <<>>
    /\ NoWrite
    /\ NoChunk
    /\ NoIHDR
    /\ NoShim
    /\ NoCalls
    /\ NoPaeth

ComputeLevel ==
    /\ pc = "ready"
    /\ level' = <<LevelOf(QualityOrOne(qualityArg))>>
    /\ pc' = "returned"
    /\ UNCHANGED qualityArg
    /\ UNCHANGED writeVars
    /\ UNCHANGED chunkVars
    /\ UNCHANGED ihdrVars
    /\ UNCHANGED shimVars
    /\ UNCHANGED callsVars
    /\ UNCHANGED paethVars

NextLevel == ComputeLevel

SpecLevel == InitLevel /\ [][NextLevel]_vars

\* The canvases toDataURL is called on and what getImageData(0, 0, width,
\* height) of their 2d context returns.
Canvases == {"icon", "banner"}

CanvasImage(canvas) ==
    IF canvas = "icon" THEN Red1x1 ELSE Image(2, 1, <<Green, Mixed>>)

\* The arguments of a toDataURL call: none, a type (undefined or a string), or
\* a type and a quality (undefined or a number).
ImageTypes == {<<>>, <<"image/png">>, <<"image/jpeg">>, <<"IMAGE/PNG">>}

CallQualities == {<<>>, <<Frac(0, 1)>>, <<Frac(1, 2)>>, <<Frac(1, 1)>>}

Arguments ==
    {<<>>} \cup {<<t>> : t \in ImageTypes}
           \cup {<<t, q>> : t \in ImageTypes, q \in CallQualities}

\* The arguments of replaceToDataURL: none, or an options object; the last
\* one holds a strategy pako refuses.
ShimOptionObjects ==
    {<<>>, <<[level |-> 5]>>, <<[windowBits |-> 9, strategy |-> 0]>>,
     <<[level |-> 5, chunkSize |-> 1024, strategy |-> 7]>>}

\* What toDataURLOld.apply(receiver, args) returns: the browser's answer, known
\* here only by the call that gave it.
ToDataURLOld(receiver, args) ==
    [from |-> "toDataURLOld", this |-> receiver, arguments |-> args]

\* A slip in the shim: type === 'image/png' alone, so a call without a type
\* goes to toDataURLOld.
IsPngTypeGivenOnly(t) == t = <<"image/png">>

\* typeof type === 'undefined' || type === 'image/png'
IsPngType(t) == t = <<>> \/ t = <<"image/png">>

\* A slip in the shim: Object.assign({}, { level: level }, options), which
\* lets a level among the options replace the one of the call.
OptionsOverLevel(opts, lvl) ==
    ObjectAssign(ObjectAssign(<<>>, [level |-> lvl]), opts)

\* Object.assign({}, options, { level: level })
EncodeOptions(opts, lvl) ==
    ObjectAssign(ObjectAssign(<<>>, opts), [level |-> lvl])

\* The function replaceToDataURL installs, called on receiver with args while
\* its closure holds opts: the record of what it calls and returns.
ShimToDataURL(receiver, args, opts) ==
    LET t == IF Len(args) >= 1 THEN args[1] ELSE <<>>
        q == IF Len(args) >= 2 THEN args[2] ELSE <<>>
    IN  IF IsPngType(t)
        THEN LET lvl == LevelOf(QualityOrOne(q))
                 image == CanvasImage(receiver)
                 w == write(image, <<EncodeOptions(opts, lvl)>>, SomeDeflateOutput)
             IN  [this |-> receiver, arguments |-> args, shim |-> TRUE,
                  oldCalls |-> <<>>,
                  writeCalls |-> <<[imageData |-> image,
                                    options |-> EncodeOptions(opts, lvl)]>>,
                  deflateCalls |-> w.deflateCalls,
                  threw |-> w.threw,
                  returned |-> IF w.threw THEN <<>>
                               ELSE <<[from |-> "bytesToBase64",
                                       text |-> bytesToBase64("data:image/png;base64,",
                                                              w.buffer)]>>]
        ELSE [this |-> receiver, arguments |-> args, shim |-> TRUE,
              oldCalls |-> <<[this |-> receiver, arguments |-> args]>>,
              writeCalls |-> <<>>, deflateCalls |-> <<>>, threw |-> FALSE,
              returned |-> <<ToDataURLOld(receiver, args)>>]

\* The last two of the calls made.
LastTwo(s) == IF Len(s) > 2 THEN Tail(s) ELSE s

\* A slip in main.ts: the prototype's toDataURL read when it is needed, not
\* when the library is loaded.
ToDataURLNow == prototypeToDataURL

\* var toDataURLOld = HTMLCanvasElement.prototype.toDataURL, evaluated when the
\* library is loaded: the browser's function.
toDataURLOld == "native"

\* The library has just been loaded: toDataURLOld holds the browser's toDataURL.
InitShim ==
    /\ pc = "loaded"
    /\ NoShim
    /\ NoWrite
    /\ NoChunk
    /\ NoIHDR
    /\ NoLevel
    /\ NoCalls
    /\ NoPaeth

\* CanvasPngCompression.replaceToDataURL(o)
ReplaceToDataURL ==
    /\ pc = "loaded"
    /\ replaces < MaxReplaces
    /\ \E o \in ShimOptionObjects :
           /\ shimOptions' = OptionsOrEmpty(o)
           /\ passedOptions' = o
    /\ prototypeToDataURL' = "shim"
    /\ lastCall' = LastTwo(lastCall \o <<"replaceToDataURL">>)
    /\ replaces' = replaces + 1
    /\ call' = <<>>
    /\ UNCHANGED <<pc, writeVars, chunkVars, ihdrVars, levelVars, callsVars, paethVars>>

\* CanvasPngCompression.revertToDataURL()
RevertToDataURL ==
    /\ pc = "loaded"
    /\ prototypeToDataURL' = toDataURLOld
    /\ shimOptions' = <<>>
    /\ passedOptions' = <<>>
    /\ lastCall' = LastTwo(lastCall \o <<"revertToDataURL">>)
    /\ call' = <<>>
    /\ UNCHANGED <<pc, replaces, writeVars, chunkVars, ihdrVars, levelVars, callsVars, paethVars>>

\* canvas.toDataURL(...args): the browser's function or the installed one,
\* whichever the prototype holds.  One call is made between two calls that
\* set the prototype: toDataURL changes nothing a later call reads.
ToDataURL ==
    /\ pc = "loaded"
    /\ call = <<>>
    /\ \E receiver \in Canvases, args \in Arguments :
           call' = IF prototypeToDataURL = "shim"
                   THEN <<ShimToDataURL(receiver, args, shimOptions)>>
                   ELSE <<[this |-> receiver, arguments |-> args, shim |-> FALSE,
                           oldCalls |-> <<[this |-> receiver, arguments |-> args]>>,
                           writeCalls |-> <<>>, deflateCalls |-> <<>>, threw |-> FALSE,
                           returned |-> <<ToDataURLOld(receiver, args)>>]>>
    /\ UNCHANGED <<prototypeToDataURL, shimOptions, passedOptions, lastCall, replaces>>
    /\ UNCHANGED <<pc, writeVars, chunkVars, ihdrVars, levelVars, callsVars, paethVars>>

NextShim == ReplaceToDataURL \/ RevertToDataURL \/ ToDataURL

SpecShim == InitShim /\ [][NextShim]_vars

---------------------------------------------------------------------------
(* Calls of filter and write one after the other, on buffers with an       *)
(* identity.                                                               *)

\* The objects the caller holds when the calls begin, by address: the pixel
\* buffers of three images (the second one is a pixel short of its 2x1
\* dimensions) and an options object.
CallerObjects == <<Flatten(<<Red, Red>>), Flatten(<<Red>>), Flatten(<<Green, Mixed>>), [level |-> 5]>>

\* The ImageData objects the caller passes: width, height and the address of
\* the data.
CallerImages ==
    {[width |-> 1, height |-> 2, data |-> 1], [width |-> 2, height |-> 1, data |-> 2],
     [width |-> 2, height |-> 1, data |-> 3]}

\* The options argument the caller passes: none (address 0), or the object.
CallerOptions == {0, 4}

\* A slip: one buffer kept by the module and handed out again by every
\* allocation after the first.
ReusedUint8Array(h, bytes) ==
    IF Len(h) > Len(CallerObjects)
    THEN [heap |-> [h EXCEPT ![Len(h)] = bytes], address |-> Len(h)]
    ELSE [heap |-> Append(h, bytes), address |-> Len(h) + 1]

\* new Uint8Array(...) holding bytes once it is filled: a new object.
NewUint8Array(h, bytes) == [heap |-> Append(h, bytes), address |-> Len(h) + 1]

\* The filter type bytes of a filtered buffer of rows of byteWidth + 1 bytes.
TypesOf(f, byteWidth) ==
    [r \in 1..(Len(f) \div (byteWidth + 1)) |-> f[(r - 1) * (byteWidth + 1) + 1]]

\* The ImageData with the bytes its data holds.
Deref(h, img) == [width |-> img.width, height |-> img.height, data |-> h[img.data]]

\* No call has been made.
InitCalls ==
    /\ pc = "ready"
    /\ heap = CallerObjects
    /\ filterTypes = FILTER_TYPES
    /\ calls = <<>>
    /\ NoWrite
    /\ NoChunk
    /\ NoIHDR
    /\ NoShim
    /\ NoLevel
    /\ NoPaeth

\* filter(imageData): the filtered buffer is allocated and returned.
CallFilter ==
    /\ pc = "ready"
    /\ Len(calls) < MaxCalls
    /\ \E img \in CallerImages :
       \E bytes \in {filter(Deref(heap, img))} :
           LET f == NewUint8Array(heap, bytes)
           IN  /\ heap' = f.heap
               /\ calls' = Append(calls,
                      [op |-> "filter", width |-> img.width, height |-> img.height,
                       data |-> img.data, before |-> heap[img.data],
                       options |-> 0, optionsBefore |-> <<>>, threw |-> FALSE,
                       filtered |-> f.address, returned |-> f.address,
                       filteredBytes |-> f.heap[f.address],
                       types |-> TypesOf(f.heap[f.address], 4 * img.width)])
    /\ UNCHANGED <<pc, filterTypes, writeVars, chunkVars, ihdrVars, shimVars, levelVars, paethVars>>

\* new PngWriter().write(imageData, options): the filtered buffer and, when
\* the compressor takes the options, the returned buffer are allocated.  The
\* buffers that do not outlive the call (the chunks, the compressor's answer)
\* are left off the heap.
CallWrite ==
    /\ pc = "ready"
    /\ Len(calls) < MaxCalls
    /\ \E img \in CallerImages, o \in CallerOptions :
       \E w \in {write(Deref(heap, img), IF o = 0 THEN <<>> ELSE <<heap[o]>>,
                       SomeDeflateOutput)} :
           LET f == NewUint8Array(heap, w.filtered)
               out == NewUint8Array(f.heap, w.buffer)
           IN  /\ heap' = IF w.threw THEN f.heap ELSE out.heap
               /\ calls' = Append(calls,
                      [op |-> "write", width |-> img.width, height |-> img.height,
                       data |-> img.data, before |-> heap[img.data],
                       options |-> o,
                       optionsBefore |-> IF o = 0 THEN <<>> ELSE <<heap[o]>>,
                       threw |-> w.threw,
                       filtered |-> f.address,
                       returned |-> IF w.threw THEN 0 ELSE out.address,
                       filteredBytes |-> w.filtered,
                       types |-> TypesOf(w.filtered, 4 * img.width)])
    /\ UNCHANGED <<pc, filterTypes, writeVars, chunkVars, ihdrVars, shimVars, levelVars, paethVars>>

NextCalls == CallFilter \/ CallWrite

SpecCalls == InitCalls /\ [][NextCalls]_vars

---------------------------------------------------------------------------
(* paethPredictor on its own.                                              *)

\* The bytes paethPredictor is called with: both ends of the range, values
\* next to each other and values far apart.
PaethBytes == {0, 1, 2, 3, 4, 64, 100, 127, 128, 129, 200, 252, 253, 254, 255}

InitPaeth ==
    /\ pc = "ready"
    /\ paethArgs \in {<<t>> : t \in PaethBytes \X PaethBytes \X PaethBytes}
    /\ predicted = <<>>
    /\ NoWrite
    /\ NoChunk
    /\ NoIHDR
    /\ NoShim
    /\ NoLevel
    /\ NoCalls

CallPaethPredictor ==
    /\ pc = "ready"
    /\ predicted' = <<paethPredictor(Num(paethArgs[1][1]), Num(paethArgs[1][2]),
                                     Num(paethArgs[1][3]))>>
    /\ pc' = "returned"
    /\ UNCHANGED paethArgs
    /\ UNCHANGED <<writeVars, chunkVars, ihdrVars, shimVars, levelVars, callsVars>>

NextPaeth == CallPaethPredictor

SpecPaeth == InitPaeth /\ [][NextPaeth]_vars

---------------------------------------------------------------------------
(* What the claims are stated with.                                        *)

\* The 32-bit integer four bytes spell, most significant byte first, read
\* as a two's complement number (the unsigned reading below 2^31).
DecodeBE(b) ==
    (IF b[1] >= 128 THEN b[1] - 256 ELSE b[1]) * 16777216
        + b[2] * 65536 + b[3] * 256 + b[4]

\* The chunk that sits in bytes from+1 .. from+12+len of a buffer is framed
\* as PNG asks: length, type tag, payload, CRC over type tag and payload.
FramedAt(b, from, tag, payload) ==
    LET len == Len(payload)
    IN  /\ Len(b) >= from + 12 + len
        /\ DecodeBE(SubSeq(b, from + 1, from + 4)) = len
        /\ DecodeBE(SubSeq(b, from + 5, from + 8)) = tag
        /\ SubSeq(b, from + 9, from + 8 + len) = payload
        /\ DecodeBE(SubSeq(b, from + 9 + len, from + 12 + len))
               = crc32(0, SubSeq(b, from + 5, from + 8 + len), 4 + len, 0)

\* The empty IEND chunk, with the CRC-32 of "IEND" (0xAE426082).
IENDBytes == <<0, 0, 0, 0, 73, 69, 78, 68, 174, 66, 96, 130>>

---------------------------------------------------------------------------
(* C1: the buffer write() returns is the 8 signature bytes, the IHDR       *)
(* chunk, one IDAT chunk holding the compressor's output and the empty     *)
(* IEND chunk, in that order and with nothing else: its length is          *)
(* 8 + 25 + (12 + length of the compressed data) + 12.                     *)
C1_Layout ==
    pc = "returned" =>
        LET out == result[1]
            n == Len(deflated)
        IN  /\ Len(out) = 8 + 25 + (12 + n) + 12
            /\ SubSeq(out, 1, 8) = <<137, 80, 78, 71, 13, 10, 26, 10>>
            /\ FramedAt(out, 8, 1229472850, SubSeq(out, 17, 29))
            /\ FramedAt(out, 33, 1229209940, deflated)
            /\ SubSeq(out, Len(out) - 11, Len(out)) = IENDBytes

C1_Witness ==
    /\ pc = "returned"
    /\ imageData = Red2x1
    /\ Len(deflated) = MaxCompressed
    /\ Len(result[1]) = 57 + MaxCompressed

---------------------------------------------------------------------------
(* C2: _writeChunk returns payload.length + 12 bytes: the payload length   *)
(* big-endian, the type tag big-endian, the payload unchanged, and the     *)
(* big-endian CRC32 (seed 0) of type tag and payload, the length field     *)
(* left out; a null payload gives 12 bytes with length 0 and the CRC of    *)
(* the four type bytes.                                                    *)
C2_ChunkFrame ==
    pc = "returned" =>
        LET payload == IF data = <<>> THEN <<>> ELSE data[1]
        IN  /\ Len(buf) = Len(payload) + 12
            /\ FramedAt(buf, 0, type, payload)
            /\ (data = <<>> /\ type = 1229278788 => buf = IENDBytes)

C2_Witness ==
    /\ pc = "returned"
    /\ data = <<>>
    /\ type = TYPE_IEND
    /\ Len(buf) = 12

---------------------------------------------------------------------------
(* C3: the IHDR chunk has type tag 'IHDR' and a 13-byte payload: the width *)
(* and the height as unsigned 32-bit big-endian integers, then the bytes   *)
(* 8 (bit depth), 6 (colour type RGBA), 0, 0, 0 (compression, filter and   *)
(* interlace method).                                                      *)
C3_IHDRPayload ==
    pc = "returned" =>
        /\ Len(ihdr) = 25
        /\ DecodeBE(SubSeq(ihdr, 1, 4)) = 13
        /\ SubSeq(ihdr, 5, 8) = <<73, 72, 68, 82>>
        /\ ihdr[9] < 128 /\ DecodeBE(SubSeq(ihdr, 9, 12)) = width
        /\ ihdr[13] < 128 /\ DecodeBE(SubSeq(ihdr, 13, 16)) = height
        /\ SubSeq(ihdr, 17, 21) = <<8, 6, 0, 0, 0>>

C3_Witness ==
    /\ pc = "returned"
    /\ width = 305419896
    /\ height = 65536
    /\ SubSeq(ihdr, 9, 16) = <<18, 52, 86, 120, 0, 1, 0, 0>>

---------------------------------------------------------------------------
(* The PNG filters as the claims state them, on a well-formed image.       *)

\* The image's buffer has width * height * 4 bytes and both dimensions are
\* positive.
WellFormed ==
    /\ imageData.width >= 1
    /\ imageData.height >= 1
    /\ Len(imageData.data) = imageData.width * imageData.height * 4

\* filter() has run in the call: write() is past it.
FilterRan == pc # "ready" /\ error # "RangeError"

ByteWidth == 4 * imageData.width

\* R(x) of row r, and its neighbours with the zero substitutions.
Raw(r, x) == imageData.data[r * ByteWidth + x + 1]

Left(r, x) == IF x < 4 THEN 0 ELSE Raw(r, x - 4)

Above(r, x) == IF r = 0 THEN 0 ELSE Raw(r - 1, x)

UpperLeft(r, x) == IF r = 0 \/ x < 4 THEN 0 ELSE Raw(r - 1, x - 4)

Abs(n) == IF n < 0 THEN 0 - n ELSE n

PaethPredictor(a, b, c) ==
    LET p == a + b - c
        pa == Abs(p - a)
        pb == Abs(p - b)
        pc_ == Abs(p - c)
    IN  IF pa <= pb /\ pa <= pc_ THEN a ELSE IF pb <= pc_ THEN b ELSE c

\* The predictor of filter type t from left a, above b and upper left c;
\* type 0 (None) predicts 0.
Predictor(t, a, b, c) ==
    CASE t = 1 -> a
      [] t = 2 -> b
      [] t = 3 -> (a + b) \div 2
      [] t = 4 -> PaethPredictor(a, b, c)
      [] OTHER -> 0

\* R(x) - pred_t(x), before any wrap.
Residual(t, r, x) == Raw(r, x) - Predictor(t, Left(r, x), Above(r, x), UpperLeft(r, x))

\* The cost of filter type t on row r: the sum of |R(x) - pred_t(x)| over
\* columns lo .. hi-1.
RECURSIVE CostRange(_, _, _, _)
CostRange(t, r, lo, hi) ==
    IF hi <= lo THEN 0
    ELSE IF hi = lo + 1 THEN Abs(Residual(t, r, lo))
    ELSE CostRange(t, r, lo, (lo + hi) \div 2) + CostRange(t, r, (lo + hi) \div 2, hi)

Cost(t, r) == CostRange(t, r, 0, ByteWidth)

\* Where row r starts in the filtered buffer (from 0), and its type byte.
RowStart(r) == r * (ByteWidth + 1)

TypeOfRow(r) == filtered[RowStart(r) + 1]

Rows == 0..(imageData.height - 1)

Columns == 0..(ByteWidth - 1)

---------------------------------------------------------------------------
(* C4: for a well-formed image filter() returns (4*width+1)*height bytes;  *)
(* row r starts at r*(4*width+1) with its filter type t, and the byte of   *)
(* column x is (R(x) - pred_t(x)) mod 256, the predictor computed without  *)
(* wrapping and with zero for what lies left of or above the image.        *)
C4_FilteredBytes ==
    WellFormed /\ FilterRan =>
        /\ Len(filtered) = (4 * imageData.width + 1) * imageData.height
        /\ \A r \in Rows :
               /\ TypeOfRow(r) \in 1..4
               /\ \A x \in Columns :
                      filtered[RowStart(r) + 1 + x + 1]
                          = Residual(TypeOfRow(r), r, x) % 256

\* A row filtered with Average where left + above passes 255, and one whose
\* residual is negative before the wrap.
C4_Witness ==
    /\ WellFormed
    /\ FilterRan
    /\ \E r \in Rows : \E x \in Columns :
           /\ TypeOfRow(r) = 3
           /\ Left(r, x) + Above(r, x) > 255
    /\ \E r \in Rows : \E x \in Columns : Residual(TypeOfRow(r), r, x) < 0

---------------------------------------------------------------------------
(* C5: for every row of a well-formed image the emitted filter type is in  *)
(* 1..4 and is the one of Sub, Up, Average, Paeth whose cost, the sum of   *)
(* |R(x) - predictor(x)| before any wrap, is smallest, the earliest of     *)
(* them when costs tie; it is decided by the row and the raw row above.    *)
C5_Selection ==
    WellFormed /\ FilterRan =>
        \A r \in Rows :
            /\ TypeOfRow(r) \in 1..4
            /\ \A u \in 1..4 :
                   /\ Cost(TypeOfRow(r), r) <= Cost(u, r)
                   /\ (u < TypeOfRow(r) => Cost(u, r) > Cost(TypeOfRow(r), r))

\* A second row that takes Paeth while the first takes another type, and a
\* row where a later type ties with the one chosen.
C5_Witness ==
    /\ WellFormed
    /\ FilterRan
    /\ imageData.height >= 2
    /\ TypeOfRow(1) = 4
    /\ TypeOfRow(0) # 4
    /\ \E r \in Rows : \E u \in 1..4 :
           u > TypeOfRow(r) /\ Cost(u, r) = Cost(TypeOfRow(r), r)

---------------------------------------------------------------------------
(* C6 as stated: for the 2x1 image of two red pixels the Sub sum is        *)
(* smaller than each of the Up, Average and Paeth sums, and the filter     *)
(* type emitted for the row is 1.                                          *)
SumLess(a, b) == ~IsNaN(a) /\ ~IsNaN(b) /\ a[1] < b[1]

SumEqual(a, b) == ~IsNaN(a) /\ ~IsNaN(b) /\ a[1] = b[1]

C6_SubSmallest ==
    imageData = Red2x1 /\ FilterRan =>
        /\ SumLess(filterSumSub(imageData.data, 0, 8, 4), filterSumUp(imageData.data, 0, 8))
        /\ SumLess(filterSumSub(imageData.data, 0, 8, 4), filterSumAvg(imageData.data, 0, 8, 4))
        /\ SumLess(filterSumSub(imageData.data, 0, 8, 4), filterSumPaeth(imageData.data, 0, 8, 4))
        /\ filtered[1] = 1

(* C6 amended: the Sub sum (510) is smaller than the Up sum (1020) and the *)
(* Average sum (766) and equal to the Paeth sum (510); the filter type     *)
(* emitted is 1 because a tie keeps the earlier type.                      *)
C6_SubFirstOfCheapest ==
    imageData = Red2x1 /\ FilterRan =>
        /\ filterSumSub(imageData.data, 0, 8, 4) = Num(510)
        /\ SumLess(filterSumSub(imageData.data, 0, 8, 4), filterSumUp(imageData.data, 0, 8))
        /\ SumLess(filterSumSub(imageData.data, 0, 8, 4), filterSumAvg(imageData.data, 0, 8, 4))
        /\ SumEqual(filterSumSub(imageData.data, 0, 8, 4), filterSumPaeth(imageData.data, 0, 8, 4))
        /\ filtered[1] = 1

C6_Witness ==
    /\ imageData = Red2x1
    /\ pc = "returned"
    /\ filtered = <<1, 255, 0, 0, 255, 0, 0, 0, 0>>

---------------------------------------------------------------------------
(* C7: decoding the output of filter() row by row, adding back modulo 256  *)
(* the predictor of the row's filter type computed from the bytes already  *)
(* reconstructed, gives the pixel data back exactly.                       *)

\* Row of bw bytes decoded from the filtered bytes F (from 0) with filter
\* type t, given the decoded row above (all zero for the first row).
DecodeRow(t, F, prior, bw) ==
    LET R[x \in 0..(bw - 1)] ==
            LET a == IF x < 4 THEN 0 ELSE R[x - 4]
                b == prior[x]
                c == IF x < 4 THEN 0 ELSE prior[x - 4]
            IN  (F[x] + Predictor(t, a, b, c)) % 256
    IN  [x \in 0..(bw - 1) |-> R[x]]

RECURSIVE UnfilterRows(_, _, _, _, _)
UnfilterRows(f, bw, h, r, prior) ==
    IF r >= h THEN <<>>
    ELSE LET start == r * (bw + 1)
             row == DecodeRow(f[start + 1], [x \in 0..(bw - 1) |-> f[start + 2 + x]],
                              prior, bw)
         IN  [i \in 1..bw |-> row[i - 1]] \o UnfilterRows(f, bw, h, r + 1, row)

Unfilter(f, w, h) == UnfilterRows(f, 4 * w, h, 0, [x \in 0..(4 * w - 1) |-> 0])

C7_RoundTrip ==
    WellFormed /\ FilterRan =>
        Unfilter(filtered, imageData.width, imageData.height) = imageData.data

\* A 2x2 image whose second row is Average or Paeth filtered.
C7_Witness ==
    /\ WellFormed
    /\ FilterRan
    /\ imageData.width = 2
    /\ imageData.height = 2
    /\ TypeOfRow(1) \in {3, 4}
    /\ Unfilter(filtered, 2, 2) = imageData.data

---------------------------------------------------------------------------
(* C8: write() forwards to the compressor the caller's options laid over   *)
(* the defaults level 0, windowBits 15, chunkSize 32768, strategy 3: a     *)
(* field the caller gives keeps the caller's value, a field left out keeps *)
(* its default.                                                            *)
StatedDefaults == [level |-> 0, windowBits |-> 15, chunkSize |-> 32768, strategy |-> 3]

C8_OptionsOverlay ==
    FilterRan =>
        /\ deflateOptions # <<>>
        /\ LET given == IF options = <<>> THEN <<>> ELSE options[1]
               forwarded == deflateOptions[1]
           IN  /\ DOMAIN forwarded = {"level", "windowBits", "chunkSize", "strategy"}
               /\ \A k \in DOMAIN forwarded :
                      forwarded[k] = IF k \in DOMAIN given THEN given[k]
                                     ELSE StatedDefaults[k]

C8_Witness ==
    /\ pc = "returned"
    /\ options = <<[level |-> 5]>>
    /\ deflateOptions = <<[level |-> 5, windowBits |-> 15, chunkSize |-> 32768, strategy |-> 3]>>

---------------------------------------------------------------------------
(* C9: write() fails, returning no buffer, whenever the image's width or   *)
(* height is zero or negative.                                             *)
C9_FailsOnEmptyImage ==
    pc # "ready" /\ (imageData.width <= 0 \/ imageData.height <= 0) =>
        pc = "threw" /\ result = <<>>

---------------------------------------------------------------------------
(* C10: write() fails with an invalid-dimensions error whenever the pixel  *)
(* buffer is not width * height * 4 bytes long, and never returns a PNG    *)
(* built from such a buffer.                                               *)
C10_FailsOnMismatch ==
    pc # "ready"
        /\ Len(imageData.data) # imageData.width * imageData.height * 4 =>
        pc = "threw" /\ error = "InvalidDimensions" /\ result = <<>>

---------------------------------------------------------------------------
(* C11: when the compressor fails inside write(), its exception is what    *)
(* the caller gets: the compressor was called once, with the caller's      *)
(* options over the defaults, and there is no returned buffer, partial or  *)
(* other.                                                                  *)
CompressorFailed ==
    /\ pc # "ready"
    /\ error # "RangeError"
    /\ ~DeflateAccepts(ObjectAssign(StatedDefaults, OptionsOrEmpty(options)))

C11_FailurePropagates ==
    CompressorFailed =>
        /\ pc = "threw"
        /\ error = "deflate"
        /\ Len(deflateOptions) = 1
        /\ deflateOptions[1] = ObjectAssign(StatedDefaults, OptionsOrEmpty(options))
        /\ compressed = <<>>
        /\ result = <<>>

\* The caller asked for level 10, which the compressor refuses.
C11_Witness ==
    /\ CompressorFailed
    /\ options = <<[level |-> 10]>>
    /\ error = "deflate"
    /\ result = <<>>

---------------------------------------------------------------------------
(* C12: the shim's level for a quality q is round(9 - 9q), a tie rounded   *)
(* up, clamped to 0..9: an integer in 0..9, 0 for q = 1 and for q > 1, 9   *)
(* for q = 0 and for q < 0, never larger for a larger quality, and the     *)
(* level of q = 1 when the quality is left out.                            *)

\* Whether m is 9 - 9q rounded to the nearest integer, a tie going up, for
\* q = n / d: m - 1/2 <= 9 - 9q < m + 1/2.
IsRounded(m, n, d) ==
    /\ 2 * d * m - d <= 2 * (9 * d - 9 * n)
    /\ 2 * (9 * d - 9 * n) < 2 * d * m + d

Clamped(m) == IF m < 0 THEN 0 ELSE IF m > 9 THEN 9 ELSE m

C12_QualityToLevel ==
    level # <<>> =>
        LET q == IF qualityArg = <<>> THEN <<1, 1>> ELSE qualityArg[1]
            n == q[1]
            d == q[2]
        IN  /\ level[1] \in 0..9
            /\ \E m \in (0 - 9 * (MaxQuality + 1))..(9 * (MaxQuality + 2)) :
                   IsRounded(m, n, d) /\ level[1] = Clamped(m)
            /\ (n = d => level[1] = 0)
            /\ (n = 0 => level[1] = 9)
            /\ (n > d => level[1] = 0)
            /\ (n < 0 => level[1] = 9)
            /\ (qualityArg = <<>> => level[1] = 0)
            /\ \A q2 \in Qualities :
                   q2[1] * d >= n * q2[2] => LevelOf(q2) <= level[1]

\* Quality 1/2: 9 - 9q = 4.5, halfway between 4 and 5, gives level 5.
C12_Witness ==
    /\ pc = "returned"
    /\ qualityArg = <<Frac(9, 18)>>
    /\ level = <<5>>

---------------------------------------------------------------------------
(* C13: after any calls of replaceToDataURL and revertToDataURL, the       *)
(* prototype's toDataURL is the browser's function of load time when the   *)
(* last of them was revertToDataURL or none was made, and the shim when    *)
(* the last was replaceToDataURL, however many replaceToDataURL calls came *)
(* before and whether or not revertToDataURL was already called.           *)
LastOf(s) == s[Len(s)]

C13_ReplaceRevert ==
    pc = "loaded" =>
        /\ (lastCall = <<>> => prototypeToDataURL = "native")
        /\ (lastCall # <<>> /\ LastOf(lastCall) = "revertToDataURL"
                => prototypeToDataURL = "native")
        /\ (lastCall # <<>> /\ LastOf(lastCall) = "replaceToDataURL"
                => prototypeToDataURL = "shim")

\* Several replaceToDataURL calls, then revertToDataURL twice.
C13_Witness ==
    /\ pc = "loaded"
    /\ replaces >= 2
    /\ lastCall = <<"revertToDataURL", "revertToDataURL">>
    /\ prototypeToDataURL = "native"

---------------------------------------------------------------------------
(* C14: a toDataURL call that reaches the installed shim encodes with      *)
(* PngWriter exactly when its type is left out (or undefined) or is        *)
(* 'image/png'; with any other type it calls the load-time toDataURL once, *)
(* on the same canvas with the same arguments, returns what that returns   *)
(* and does not call PngWriter or the compressor.                          *)
TypeOf(args) == IF Len(args) >= 1 THEN args[1] ELSE <<>>

C14_TypeDispatch ==
    call # <<>> /\ call[1].shim =>
        IF TypeOf(call[1].arguments) \in {<<>>, <<"image/png">>}
        THEN /\ Len(call[1].writeCalls) = 1
             /\ call[1].writeCalls[1].imageData = CanvasImage(call[1].this)
             /\ call[1].oldCalls = <<>>
        ELSE /\ call[1].writeCalls = <<>>
             /\ call[1].deflateCalls = <<>>
             /\ call[1].oldCalls
                    = <<[this |-> call[1].this, arguments |-> call[1].arguments]>>
             /\ ~call[1].threw
             /\ call[1].returned
                    = <<[from |-> "toDataURLOld", this |-> call[1].this,
                         arguments |-> call[1].arguments]>>

\* 'IMAGE/PNG' with a quality is not 'image/png': the call is delegated.
C14_Witness ==
    /\ prototypeToDataURL = "shim"
    /\ call # <<>>
    /\ call[1].shim
    /\ call[1].arguments = <<<<"IMAGE/PNG">>, <<Frac(1, 2)>>>>
    /\ Len(call[1].oldCalls) = 1
    /\ call[1].writeCalls = <<>>

---------------------------------------------------------------------------
(* C15: in any sequence of filter and write calls, two calls on the same   *)
(* width, height and pixel bytes produce the same filter types and the     *)
(* same filtered bytes whatever calls were made before or between them,    *)
(* and the FILTER_TYPES table is what it was when the module was loaded.   *)
SameInput(c1, c2) ==
    /\ c1.width = c2.width
    /\ c1.height = c2.height
    /\ c1.before = c2.before

---------------------------------------------------------------------------
(* C16: for bytes a, b, c, with p = a + b - c and the distances pa, pb, pc *)
(* of p to a, b, c taken without wrap, paethPredictor returns a when       *)
(* pa <= pb and pa <= pc, else b when pb <= pc, else c: one of a, b, c     *)
(* nearest to p, the first of them in the order a, b, c when distances     *)
(* tie, and a when all three distances are equal.                          *)
C16_PaethPredictor ==
    predicted # <<>> =>
        LET a == paethArgs[1][1]
            b == paethArgs[1][2]
            c == paethArgs[1][3]
            p == a + b - c
            pa == Abs(p - a)
            pb == Abs(p - b)
            pcc == Abs(p - c)
            nearest == IF pa <= pb /\ pa <= pcc THEN pa
                       ELSE IF pb <= pcc THEN pb ELSE pcc
        IN  /\ predicted[1] = Num(IF pa <= pb /\ pa <= pcc THEN a
                                  ELSE IF pb <= pcc THEN b ELSE c)
            /\ predicted[1] \in {Num(a), Num(b), Num(c)}
            /\ \/ predicted[1] = Num(a) /\ pa = nearest
               \/ predicted[1] = Num(b) /\ pb = nearest /\ pa > pb
               \/ predicted[1] = Num(c) /\ pcc = nearest /\ pa > pcc /\ pb > pcc
            /\ (pa = pb /\ pb = pcc => predicted[1] = Num(a))

\* a = 4, b = 1, c = 2: p = 3, pa = 1, pb = 2, pc = 1; left and upper left
\* tie and left is returned.
C16_Witness ==
    /\ paethArgs = <<<<4, 1, 2>>>>
    /\ predicted = <<Num(4)>>

---------------------------------------------------------------------------
(* C17: after any calls of filter and write the caller's pixel buffers     *)
(* hold the bytes they held before the call and the caller's options       *)
(* object the fields it had; the filtered buffer and the returned buffer   *)
(* of a call are objects of their own: not one of the caller's, not each   *)
(* other in write, and not a buffer of an earlier call.                    *)
CallerAddresses == 1..Len(CallerObjects)

BuffersOf(c) == {c.filtered, c.returned} \ {0}

C17_InputsUntouched ==
    \A i \in DOMAIN calls :
        /\ heap[calls[i].data] = calls[i].before
        /\ (calls[i].options # 0 => <<heap[calls[i].options]>> = calls[i].optionsBefore)
        /\ BuffersOf(calls[i]) \cap CallerAddresses = {}
        /\ (calls[i].op = "write" /\ calls[i].returned # 0
                => calls[i].returned # calls[i].filtered)
        /\ \A j \in 1..(i - 1) : BuffersOf(calls[i]) \cap BuffersOf(calls[j]) = {}

\* write twice on the same image with the same options object, then filter
\* on the same image.
C17_Witness ==
    /\ Len(calls) = 3
    /\ calls[1].op = "write" /\ calls[2].op = "write" /\ calls[3].op = "filter"
    /\ \A i \in 1..3 : calls[i].data = 3
    /\ calls[1].options = 4 /\ calls[2].options = 4
    /\ calls[1].returned # 0 /\ calls[2].returned # 0
    /\ Cardinality(BuffersOf(calls[1]) \cup BuffersOf(calls[2]) \cup BuffersOf(calls[3])) = 5

---------------------------------------------------------------------------
(* C18: in a PNG encode made through the installed shim the compressor     *)
(* gets the level of the call's quality, also when the options given to    *)
(* replaceToDataURL hold a level; windowBits, chunkSize and strategy are   *)
(* the ones given to replaceToDataURL, or the encoder's defaults when not  *)
(* given; the options in effect are those of the last replaceToDataURL     *)
(* call, as they were given.                                               *)
QualityOf(args) == IF Len(args) >= 2 /\ args[2] # <<>> THEN args[2][1] ELSE <<1, 1>>

C18_ShimLevel ==
    call # <<>> /\ call[1].shim /\ call[1].writeCalls # <<>> =>
        LET given == IF passedOptions = <<>> THEN <<>> ELSE passedOptions[1]
            q == QualityOf(call[1].arguments)
        IN  /\ shimOptions = given
            /\ Len(call[1].deflateCalls) = 1
            /\ \E m \in (0 - 9 * (MaxQuality + 1))..(9 * (MaxQuality + 2)) :
                   /\ IsRounded(m, q[1], q[2])
                   /\ call[1].deflateCalls[1].level = Clamped(m)
                   /\ call[1].writeCalls[1].options.level = Clamped(m)
            /\ \A k \in {"windowBits", "chunkSize", "strategy"} :
                   call[1].deflateCalls[1][k] = IF k \in DOMAIN given THEN given[k]
                                                ELSE StatedDefaults[k]

\* replaceToDataURL({level: 5}), then toDataURL('image/png', 0): level 9.
C18_Witness ==
    /\ prototypeToDataURL = "shim"
    /\ passedOptions = <<[level |-> 5]>>
    /\ call # <<>>
    /\ call[1].arguments = <<<<"image/png">>, <<Frac(0, 1)>>>>
    /\ call[1].deflateCalls = <<[level |-> 9, windowBits |-> 15,
                                 chunkSize |-> 32768, strategy |-> 3]>>

===========================================================================
